---- MODULE Spec2Model ----
(***************************************************************************)
(* Model of tray_app.py: the lifecycle of the single WireGuard tunnel      *)
(* service "teleport" (persisted identity / token / config files, the      *)
(* wireguard.exe install and uninstall commands, the sc status query) and  *)
(* the three user intents Connect, Disconnect and Reset.                   *)
(***************************************************************************)
EXTENDS Integers, Sequences, FiniteSets, TLC

(***************************************************************************)
(* Bounds of the model.                                                    *)
(***************************************************************************)
\* longest text (in characters) the remote services hand back
MaxTextLen == 1
\* largest number of consecutive status polls that still report "running"
\* after the removal command was acknowledged
MaxLag == 11
\* largest retries argument of a status query that is explored
MaxRetries == 4

(***************************************************************************)
(* Texts.  A text is a sequence of characters; " " stands for any          *)
(* whitespace character (blank, tab, newline).  None is Python's None:     *)
(* an absent file, a cancelled dialog; it is no text.                      *)
(***************************************************************************)
None == <<"None">>

Chars == {"a", " "}

Whitespace == {" "}

RECURSIVE TextsOfLen(_)
TextsOfLen(n) ==
  IF n = 0 THEN {<<>>}
  ELSE {Append(t, c) : t \in TextsOfLen(n - 1), c \in Chars}

Texts == UNION {TextsOfLen(n) : n \in 0..MaxTextLen}

\* str.lstrip()
RECURSIVE lstrip(_)
lstrip(t) ==
  IF t # <<>> /\ Head(t) \in Whitespace THEN lstrip(Tail(t)) ELSE t

\* str.rstrip()
RECURSIVE rstrip(_)
rstrip(t) ==
  IF t # <<>> /\ t[Len(t)] \in Whitespace
  THEN rstrip(SubSeq(t, 1, Len(t) - 1)) ELSE t

\* str.strip()
strip(t) == rstrip(lstrip(t))

\* truth value of a Python str-or-None, as in "if pin:"
Truthy(x) == x # None /\ x # <<>>

(***************************************************************************)
(* IEEE-754 binary64 arithmetic on non-negative values, as far as the      *)
(* poll loop of deactivate_tunnel uses it.  A double is a record           *)
(* [exp, man]: man is the 53-bit significand, most significant bit first,  *)
(* and the value is man[1].man[2]...man[53] (binary) times 2^exp.  Zero    *)
(* has an all-zero significand.                                            *)
(***************************************************************************)
Precision == 53

Zeros(n) == [i \in 1..n |-> 0]

DZero == [exp |-> 0, man |-> Zeros(Precision)]

IsZero(x) == \A i \in 1..Precision : x.man[i] = 0

\* bitwise sum of two equally long bit strings; the result is one bit longer.
\* The carry into position i comes from the nearest lower position that
\* generates one, provided every position in between propagates it.
CarryInto(x, y, i) ==
  \E j \in (i + 1)..Len(x) :
     /\ x[j] + y[j] = 2
     /\ \A k \in (i + 1)..(j - 1) : x[k] + y[k] = 1

AddBits(x, y) ==
  [i \in 1..(Len(x) + 1) |->
     IF i = 1 THEN (IF CarryInto(x, y, 0) THEN 1 ELSE 0)
     ELSE (x[i - 1] + y[i - 1] + (IF CarryInto(x, y, i - 1) THEN 1 ELSE 0)) % 2]

\* round a bit string with leading bit 1 (value b[1].b[2]... times 2^e) to
\* Precision bits, round-half-to-even
RoundBits(b, e) ==
  LET m    == SubSeq(b, 1, Precision)
      rest == SubSeq(b, Precision + 1, Len(b))
      half == rest # <<>> /\ rest[1] = 1
      more == \E i \in 2..Len(rest) : rest[i] = 1
      up   == half /\ (more \/ m[Precision] = 1)
      inc  == AddBits(m, [i \in 1..Precision |-> IF i = Precision THEN 1 ELSE 0])
  IN  IF ~up THEN [exp |-> e, man |-> m]
      ELSE IF inc[1] = 1
           THEN [exp |-> e + 1, man |-> SubSeq(inc, 1, Precision)]
           ELSE [exp |-> e, man |-> SubSeq(inc, 2, Precision + 1)]

\* x + y in binary64
DAdd(x, y) ==
  IF IsZero(x) THEN y
  ELSE IF IsZero(y) THEN x
  ELSE LET hi  == IF x.exp >= y.exp THEN x ELSE y
           lo  == IF x.exp >= y.exp THEN y ELSE x
           d   == hi.exp - lo.exp
           sum == AddBits(hi.man \o Zeros(d), Zeros(d) \o lo.man)
       IN  IF sum[1] = 1 THEN RoundBits(sum, hi.exp + 1)
           ELSE RoundBits(Tail(sum), hi.exp)

\* lexicographic order on equally long bit strings
BitsLess(x, y) ==
  \E i \in 1..Len(x) :
     /\ x[i] < y[i]
     /\ \A j \in 1..(i - 1) : x[j] = y[j]

\* x < y in binary64
DLess(x, y) ==
  IF IsZero(y) THEN FALSE
  ELSE IF IsZero(x) THEN TRUE
  ELSE IF x.exp # y.exp THEN x.exp < y.exp
  ELSE BitsLess(x.man, y.man)

\* the exponent e with 2^e <= n/d < 2^(e+1)
RECURSIVE Exp2(_, _)
Exp2(n, d) ==
  IF n >= 2 * d THEN Exp2(n, 2 * d) + 1
  ELSE IF n < d THEN Exp2(2 * n, d) - 1
  ELSE 0

RECURSIVE Pow2(_)
Pow2(k) == IF k = 0 THEN 1 ELSE 2 * Pow2(k - 1)

\* the binary expansion of rem/d (rem < d), k bits, followed by a sticky
\* pair that tells how the remainder compares to one half
RECURSIVE DivBits(_, _, _)
DivBits(rem, d, k) ==
  IF k = 0
  THEN IF 2 * rem > d THEN <<1, 1>>
       ELSE IF 2 * rem = d THEN <<1, 0>>
       ELSE IF rem > 0 THEN <<0, 1>>
       ELSE <<0, 0>>
  ELSE LET r2 == 2 * rem
       IN  IF r2 >= d THEN <<1>> \o DivBits(r2 - d, d, k - 1)
           ELSE <<0>> \o DivBits(r2, d, k - 1)

\* the double a decimal literal n/d denotes (correctly rounded)
Double(n, d) ==
  IF n = 0 THEN DZero
  ELSE LET e  == Exp2(n, d)
           nn == IF e < 0 THEN n * Pow2(0 - e) ELSE n
           dd == IF e > 0 THEN d * Pow2(e) ELSE d
       IN  RoundBits(<<1>> \o DivBits(nn - dd, dd, Precision - 1), e)

(***************************************************************************)
(* The collaborators: the PIN dialog, the teleport module (remote          *)
(* credential and config exchange), the file system, wireguard.exe and     *)
(* sc.exe.  Each handler run draws one record of their behaviours.         *)
(***************************************************************************)
\* a remote call that raises instead of returning a text
RemoteFail == <<"raise">>

\* what simpledialog.askstring can return: None (cancelled) or a text
Pins == {None} \cup {t \in Texts : Len(t) <= 1}

\* what generate_client_hint() can return
ClientHints == {t \in Texts : Len(t) = 1}

\* what get_device_token() can return
Tokens == Texts

\* what connect_device() can return
Configs == {t \in Texts : Len(t) = 1}

Slots == {"token", "uuid", "config"}

\* what one run of "sc query WireGuardTunnel$teleport" can give: a completed
\* process (exit code, state named in its output) or an exception
ScCompleted ==
  {[exc |-> "none", returncode |-> 0, state |-> w] :
      w \in {"RUNNING", "STOPPED", "STOP_PENDING"}}
  \cup {[exc |-> "none", returncode |-> 1060, state |-> "FAILED"]}

ScRaised ==
  {[exc |-> e, returncode |-> 0, state |-> ""] :
      e \in {"TimeoutExpired", "FileNotFoundError", "OSError"}}

ScResponses == ScCompleted \cup ScRaised

ScRunning == [exc |-> "none", returncode |-> 0, state |-> "RUNNING"]

\* the responses sc can give for a service that is not (or no longer)
\* installed: it does not exist, or it is still winding down
ScGone == {r \in ScCompleted : r.state # "RUNNING"}

\* the n-th status query of a handler run: the service is still reported
\* running for the first env.lag queries, then env.settle is reported
ScQuery(env, n) == IF n <= env.lag THEN ScRunning ELSE env.settle

(***************************************************************************)
(* Outcomes of a function: a returned (success, message) pair, a bare      *)
(* return (None), or an exception that leaves the function.                *)
(***************************************************************************)
Return(ok, msg) == [kind |-> "return", ok |-> ok, msg |-> msg]

ReturnNone == [kind |-> "none", ok |-> FALSE, msg |-> "None"]

Raise(e) == [kind |-> "raise", ok |-> FALSE, msg |-> e]

\* the effects a function has had so far
Log(st, name, arg) == [st EXCEPT !.log = Append(@, <<name, arg>>)]

Count(log, name) == Cardinality({i \in 1..Len(log) : log[i][1] = name})

(***************************************************************************)
(* wireguard.exe, the tunnel-service manager.                              *)
(***************************************************************************)
\* wireguard.exe /uninstalltunnelservice teleport
WgUninstall(installed, rm) ==
  IF rm = "failed" THEN [installed |-> installed, status |-> "failed"]
  ELSE IF installed THEN [installed |-> FALSE, status |-> "ok"]
  ELSE [installed |-> FALSE, status |-> "not found"]

\* wireguard.exe /installtunnelservice <config path>
WgInstall(installed, inst) ==
  IF inst = "ok" /\ ~installed
  THEN [installed |-> TRUE, status |-> "ok"]
  ELSE [installed |-> installed, status |-> "failed"]

(***************************************************************************)
(* generate_config                                                         *)
(***************************************************************************)
\* generate_config with lines 51-52 left out: the issued token is used but
\* never written to TOKEN_FILE
generate_config_token_not_saved(st, pin, env) ==
  LET had   == st.uuid # None
      hint  == IF had THEN strip(st.uuid) ELSE env.hint
      st1   == IF had THEN Log(st, "read_uuid", st.uuid)
               ELSE Log([Log(st, "generate_client_hint", env.hint)
                           EXCEPT !.uuid = env.hint], "write_uuid", env.hint)
      st2   == Log(st1, "get_device_token", hint)
      st4   == Log(st, "read_token", st.token)
      exchange(s, device_token) ==
        LET s1 == Log(s, "connect_device", device_token)
        IN  IF env.conf = RemoteFail
            THEN [st |-> s1, ret |-> Return(FALSE, "connect_device failed")]
            ELSE [st  |-> Log([s1 EXCEPT !.config = env.conf],
                              "write_config", env.conf),
                  ret |-> Return(TRUE, "config_str")]
  IN  IF Truthy(pin)
      THEN IF env.tok = RemoteFail
           THEN [st |-> st2, ret |-> Return(FALSE, "get_device_token failed")]
           ELSE exchange(st2, env.tok)
      ELSE IF st.token = None
           THEN [st  |-> st,
                 ret |-> Return(FALSE, "No previous token found. Please enter a new PIN.")]
           ELSE exchange(st4, strip(st.token))

\* generate_config without the test of line 43: a new identity is generated
\* and written at every PIN entry
generate_config_new_identity(st, pin, env) ==
  LET st1   == Log([Log(st, "generate_client_hint", env.hint)
                      EXCEPT !.uuid = env.hint], "write_uuid", env.hint)
      st2   == Log(st1, "get_device_token", env.hint)
      st3   == Log([st2 EXCEPT !.token = env.tok], "write_token", env.tok)
      st4   == Log(st, "read_token", st.token)
      exchange(s, device_token) ==
        LET s1 == Log(s, "connect_device", device_token)
        IN  IF env.conf = RemoteFail
            THEN [st |-> s1, ret |-> Return(FALSE, "connect_device failed")]
            ELSE [st  |-> Log([s1 EXCEPT !.config = env.conf],
                              "write_config", env.conf),
                  ret |-> Return(TRUE, "config_str")]
  IN  IF Truthy(pin)
      THEN IF env.tok = RemoteFail
           THEN [st |-> st2, ret |-> Return(FALSE, "get_device_token failed")]
           ELSE exchange(st3, env.tok)
      ELSE IF st.token = None
           THEN [st  |-> st,
                 ret |-> Return(FALSE, "No previous token found. Please enter a new PIN.")]
           ELSE exchange(st4, strip(st.token))

\* generate_config opening TOKEN_FILE for writing before the token exchange
\* of line 50: the file is truncated although the exchange then fails
generate_config_truncates_token(st, pin, env) ==
  LET had   == st.uuid # None
      hint  == IF had THEN strip(st.uuid) ELSE env.hint
      st1   == IF had THEN Log(st, "read_uuid", st.uuid)
               ELSE Log([Log(st, "generate_client_hint", env.hint)
                           EXCEPT !.uuid = env.hint], "write_uuid", env.hint)
      st2   == Log([st1 EXCEPT !.token = <<>>], "get_device_token", hint)
      st3   == Log([st2 EXCEPT !.token = env.tok], "write_token", env.tok)
      st4   == Log(st, "read_token", st.token)
      exchange(s, device_token) ==
        LET s1 == Log(s, "connect_device", device_token)
        IN  IF env.conf = RemoteFail
            THEN [st |-> s1, ret |-> Return(FALSE, "connect_device failed")]
            ELSE [st  |-> Log([s1 EXCEPT !.config = env.conf],
                              "write_config", env.conf),
                  ret |-> Return(TRUE, "config_str")]
  IN  IF Truthy(pin)
      THEN IF env.tok = RemoteFail
           THEN [st |-> st2, ret |-> Return(FALSE, "get_device_token failed")]
           ELSE exchange(st3, env.tok)
      ELSE IF st.token = None
           THEN [st  |-> st,
                 ret |-> Return(FALSE, "No previous token found. Please enter a new PIN.")]
           ELSE exchange(st4, strip(st.token))

generate_config(st, pin, env) ==
  LET \* lines 41-52: PIN path
      had   == st.uuid # None
      hint  == IF had THEN strip(st.uuid) ELSE env.hint
      st1   == IF had THEN Log(st, "read_uuid", st.uuid)
               ELSE Log([Log(st, "generate_client_hint", env.hint)
                           EXCEPT !.uuid = env.hint], "write_uuid", env.hint)
      st2   == Log(st1, "get_device_token", hint)
      st3   == Log([st2 EXCEPT !.token = env.tok], "write_token", env.tok)
      \* lines 53-57: no-PIN path
      st4   == Log(st, "read_token", st.token)
      \* lines 58-61
      exchange(s, device_token) ==
        LET s1 == Log(s, "connect_device", device_token)
        IN  IF env.conf = RemoteFail
            THEN [st |-> s1, ret |-> Return(FALSE, "connect_device failed")]
            ELSE [st  |-> Log([s1 EXCEPT !.config = env.conf],
                              "write_config", env.conf),
                  ret |-> Return(TRUE, "config_str")]
  IN  IF Truthy(pin)
      THEN IF env.tok = RemoteFail
           THEN [st |-> st2, ret |-> Return(FALSE, "get_device_token failed")]
           ELSE exchange(st3, env.tok)
      ELSE IF st.token = None
           THEN [st  |-> st,
                 ret |-> Return(FALSE, "No previous token found. Please enter a new PIN.")]
           ELSE exchange(st4, strip(st.token))

(***************************************************************************)
(* activate_tunnel                                                         *)
(***************************************************************************)
\* activate_tunnel with line 71 left out: install without removing first
activate_tunnel_no_remove(st, env) ==
  IF st.config = None
  THEN [st |-> st, ret |-> Return(FALSE, "No config found. Generate one first.")]
  ELSE LET ins == WgInstall(st.installed, env.inst)
           st3 == Log([st EXCEPT !.installed = ins.installed],
                      "wg_install", <<ins.status>>)
       IN  IF env.wg = "missing"
           THEN [st  |-> Log(st, "wg_install", <<"FileNotFoundError">>),
                 ret |-> Raise("FileNotFoundError")]
           ELSE IF ins.status = "ok"
                THEN [st |-> st3, ret |-> Return(TRUE, "Tunnel activated!")]
                ELSE [st |-> st3, ret |-> Return(FALSE, "Activation failed: ")]

activate_tunnel(st, env) ==
  IF st.config = None
  THEN [st |-> st, ret |-> Return(FALSE, "No config found. Generate one first.")]
  ELSE LET un  == WgUninstall(st.installed, env.rm)
           st1 == Log([st EXCEPT !.installed = un.installed],
                      "wg_uninstall", <<un.status>>)
           ins == WgInstall(st1.installed, env.inst)
           st3 == Log([st1 EXCEPT !.installed = ins.installed],
                      "wg_install", <<ins.status>>)
       IN  IF env.wg = "missing"
           THEN [st  |-> Log(st, "wg_uninstall", <<"FileNotFoundError">>),
                 ret |-> Raise("FileNotFoundError")]
           ELSE IF ins.status = "ok"
                THEN [st |-> st3, ret |-> Return(TRUE, "Tunnel activated!")]
                ELSE [st |-> st3, ret |-> Return(FALSE, "Activation failed: ")]

(***************************************************************************)
(* is_tunnel_active                                                        *)
(***************************************************************************)
\* lines 101-124: what one attempt does with the response to its query
\* AttemptOutcome with the except clauses falling through to the retry
AttemptOutcome_retry_on_error(r) ==
  IF r.exc # "none" THEN "retry"
  ELSE IF r.returncode = 0 /\ r.state = "RUNNING" THEN "return True"
  ELSE "return False"

\* AttemptOutcome with line 115 left out: an answer that names neither
\* running nor stopped falls through to the retry
AttemptOutcome_retry_on_pending(r) ==
  IF r.exc # "none" THEN "return False"
  ELSE IF r.returncode = 0
       THEN IF r.state = "RUNNING" THEN "return True"
            ELSE IF r.state = "STOPPED" THEN "return False"
            ELSE "retry"
       ELSE "return False"

AttemptOutcome(r) ==
  IF r.exc \in {"TimeoutExpired", "FileNotFoundError"} THEN "return False"
  ELSE IF r.exc # "none" THEN "return False"
  ELSE IF r.returncode = 0
       THEN IF r.state = "RUNNING" THEN "return True"
            ELSE IF r.state = "STOPPED" THEN "return False"
            ELSE "return False"
       ELSE "return False"

RECURSIVE is_tunnel_active_from(_, _, _, _, _)
is_tunnel_active_from(st, attempt, retries, delay, env) ==
  IF attempt >= retries
  THEN [st |-> st, ret |-> FALSE]
  ELSE LET r   == ScQuery(env, Count(st.log, "sc_query") + 1)
           st1 == Log(st, "sc_query", <<IF r.exc = "none" THEN r.state ELSE r.exc>>)
           out == AttemptOutcome(r)
       IN  IF out = "return True" THEN [st |-> st1, ret |-> TRUE]
           ELSE IF out = "return False" THEN [st |-> st1, ret |-> FALSE]
           ELSE is_tunnel_active_from(Log(st1, "sleep", delay),
                                      attempt + 1, retries, delay, env)

is_tunnel_active(st, retries, delay, env) ==
  is_tunnel_active_from(st, 0, retries, delay, env)

(***************************************************************************)
(* deactivate_tunnel                                                       *)
(***************************************************************************)
\* the literals of lines 83-85 and the default delay of line 98
max_wait == Double(80, 10)

poll_interval == Double(8, 10)

DefaultRetries == 3

DefaultDelay == <<"1.0">>

PollSleep == <<"0.8">>

\* the value of elapsed after k executions of "elapsed += poll_interval",
\* k = 0 .. n, starting from elapsed = 0.0
RECURSIVE ElapsedUpTo(_)
ElapsedUpTo(n) ==
  IF n = 0 THEN <<DZero>>
  ELSE LET prev == ElapsedUpTo(n - 1)
       IN  Append(prev, DAdd(prev[n], poll_interval))

\* no run polls more than MaxLag + 1 times: the first query that is not
\* answered "running" ends the loop
ElapsedTable == ElapsedUpTo(MaxLag + 1)

\* the loop test of line 86 after k sleeps
LoopTest == [k \in 0..(MaxLag + 1) |-> DLess(ElapsedTable[k + 1], max_wait)]

\* lines 86-92, entered with k sleeps done
RECURSIVE poll_loop(_, _, _)
poll_loop(st, k, env) ==
  IF LoopTest[k]
  THEN LET q == is_tunnel_active(st, DefaultRetries, DefaultDelay, env)
       IN  IF ~q.ret
           THEN [st |-> q.st, ret |-> Return(TRUE, "Tunnel deactivated!")]
           ELSE poll_loop(Log(q.st, "poll_sleep", PollSleep), k + 1, env)
  ELSE [st  |-> st,
        ret |-> Return(TRUE, "Tunnel deactivation requested (status may take a moment to update)")]

\* deactivate_tunnel without the 'not found' test of line 94
deactivate_tunnel_no_not_found(st, env) ==
  LET un  == WgUninstall(st.installed, env.rm)
      st2 == Log([st EXCEPT !.installed = un.installed],
                 "wg_uninstall", <<un.status>>)
  IN  IF env.wg = "missing"
      THEN [st  |-> Log(st, "wg_uninstall", <<"FileNotFoundError">>),
            ret |-> Raise("FileNotFoundError")]
      ELSE IF un.status = "ok" THEN poll_loop(st2, 0, env)
      ELSE [st |-> st2, ret |-> Return(FALSE, "Deactivation failed: ")]

deactivate_tunnel(st, env) ==
  LET un  == WgUninstall(st.installed, env.rm)
      st2 == Log([st EXCEPT !.installed = un.installed],
                 "wg_uninstall", <<un.status>>)
  IN  IF env.wg = "missing"
      THEN [st  |-> Log(st, "wg_uninstall", <<"FileNotFoundError">>),
            ret |-> Raise("FileNotFoundError")]
      ELSE IF un.status = "ok" THEN poll_loop(st2, 0, env)
      ELSE IF un.status = "not found"
           THEN [st |-> st2, ret |-> Return(FALSE, "Tunnel not active.")]
           ELSE [st |-> st2, ret |-> Return(FALSE, "Deactivation failed: ")]

(***************************************************************************)
(* The handlers                                                            *)
(***************************************************************************)
show_pin_dialog(st, and_activate, env) ==
  LET st1 == Log(st, "askstring", env.pin)
      g   == generate_config(st1, env.pin, env)
      a   == activate_tunnel(g.st, env)
  IN  IF ~Truthy(env.pin) THEN [st |-> st1, ret |-> ReturnNone]
      ELSE IF ~g.ret.ok THEN [st |-> g.st, ret |-> ReturnNone]
      ELSE IF ~and_activate THEN [st |-> g.st, ret |-> ReturnNone]
      ELSE IF a.ret.kind = "raise" THEN a
      ELSE [st |-> a.st, ret |-> ReturnNone]

on_refresh_config(st, env) ==
  LET g == generate_config(st, None, env)
      a == activate_tunnel(g.st, env)
  IN  IF st.token = None THEN [st |-> st, ret |-> ReturnNone]
      ELSE IF g.ret.ok THEN a
      ELSE [st |-> g.st, ret |-> Return(FALSE, g.ret.msg)]

\* on_connect without the test of line 162: the PIN dialog in every case
on_connect_always_pin(st, env) ==
  LET d == show_pin_dialog(st, TRUE, env)
  IN  IF d.ret.kind = "raise"
      THEN [st |-> d.st, ret |-> Return(FALSE, "Error Creating New Connection")]
      ELSE [st |-> d.st, ret |-> Return(TRUE, "Successfully Created New Connection")]

on_connect(st, env) ==
  IF st.token = None
  THEN LET d == show_pin_dialog(st, TRUE, env)
       IN  IF d.ret.kind = "raise"
           THEN [st |-> d.st, ret |-> Return(FALSE, "Error Creating New Connection")]
           ELSE [st |-> d.st, ret |-> Return(TRUE, "Successfully Created New Connection")]
  ELSE on_refresh_config(st, env)

\* line 172 tests the function object is_tunnel_active, not its result
FunctionObjectIsTrue == TRUE

on_disconnect(st, env) ==
  IF ~FunctionObjectIsTrue
  THEN [st |-> st, ret |-> Return(FALSE, "No Teleport Tunnel is active")]
  ELSE deactivate_tunnel(st, env)

\* "if os.path.exists(F): os.remove(F)" for one slot; os.remove raises for
\* the slots in env.locked
RemoveSlot(r, slot, env) ==
  LET present == CASE slot = "token"  -> r.st.token # None
                   [] slot = "uuid"   -> r.st.uuid # None
                   [] slot = "config" -> r.st.config # None
      s1      == Log(r.st, "os.remove", <<slot>>)
      gone    == CASE slot = "token"  -> [s1 EXCEPT !.token = None]
                   [] slot = "uuid"   -> [s1 EXCEPT !.uuid = None]
                   [] slot = "config" -> [s1 EXCEPT !.config = None]
  IN  IF r.ret.kind = "raise" \/ ~present THEN r
      ELSE IF slot \in env.locked
           THEN [st |-> Log(s1, "OSError", <<slot>>), ret |-> Raise("OSError")]
      ELSE [st |-> gone, ret |-> r.ret]

\* on_delete_config with lines 184-185 and 186-187 exchanged: the identity
\* is deleted before the token
on_delete_config_uuid_first(st, env) ==
  LET st1 == Log(st, "askyesno", IF env.confirm THEN <<"yes">> ELSE <<"no">>)
      d   == deactivate_tunnel(st1, env)
      d1  == [st |-> d.st, ret |-> IF d.ret.kind = "raise" THEN d.ret ELSE ReturnNone]
      r   == RemoveSlot(RemoveSlot(RemoveSlot(d1, "uuid", env), "token", env),
                        "config", env)
  IN  IF ~env.confirm THEN [st |-> st1, ret |-> ReturnNone]
      ELSE IF r.ret.kind = "raise"
           THEN [st |-> r.st, ret |-> Return(FALSE, "Error while deleting configuration")]
           ELSE [st |-> r.st, ret |-> Return(TRUE, "Configuration Deleted")]

\* on_delete_config with lines 188-189 moved to the front: the config is
\* deleted before the token
on_delete_config_config_first(st, env) ==
  LET st1 == Log(st, "askyesno", IF env.confirm THEN <<"yes">> ELSE <<"no">>)
      d   == deactivate_tunnel(st1, env)
      d1  == [st |-> d.st, ret |-> IF d.ret.kind = "raise" THEN d.ret ELSE ReturnNone]
      r   == RemoveSlot(RemoveSlot(RemoveSlot(d1, "config", env), "token", env),
                        "uuid", env)
  IN  IF ~env.confirm THEN [st |-> st1, ret |-> ReturnNone]
      ELSE IF r.ret.kind = "raise"
           THEN [st |-> r.st, ret |-> Return(FALSE, "Error while deleting configuration")]
           ELSE [st |-> r.st, ret |-> Return(TRUE, "Configuration Deleted")]

on_delete_config(st, env) ==
  LET st1 == Log(st, "askyesno", IF env.confirm THEN <<"yes">> ELSE <<"no">>)
      d   == deactivate_tunnel(st1, env)
      d1  == [st |-> d.st, ret |-> IF d.ret.kind = "raise" THEN d.ret ELSE ReturnNone]
      r   == RemoveSlot(RemoveSlot(RemoveSlot(d1, "token", env), "uuid", env),
                        "config", env)
  IN  IF ~env.confirm THEN [st |-> st1, ret |-> ReturnNone]
      ELSE IF r.ret.kind = "raise"
           THEN [st |-> r.st, ret |-> Return(FALSE, "Error while deleting configuration")]
           ELSE [st |-> r.st, ret |-> Return(TRUE, "Configuration Deleted")]

\* refresh_buttons, line 229: the status shown by the control window
RefreshRetries == 4

RefreshDelay == <<"0.8">>

refresh_buttons(st, env) ==
  is_tunnel_active(st, RefreshRetries, RefreshDelay, env)

(***************************************************************************)
(* The program: the persisted slots, the tunnel service, and what the      *)
(* last handler did.                                                       *)
(***************************************************************************)
VARIABLES
  uuid,       \* content of UUID_FILE, None when the file is absent
  token,      \* content of TOKEN_FILE, None when the file is absent
  config,     \* content of CONFIG_PATH, None when the file is absent
  installed,  \* the tunnel service "teleport" is installed
  op,         \* the handler that ran last
  log,        \* the effects of the handler that ran last, in order
  result,     \* the outcome of the handler that ran last
  before,     \* the slots and the service as the last handler found them
  inp         \* the inputs of the last direct call of a function

vars == <<uuid, token, config, installed, op, log, result, before, inp>>

Files == [uuid |-> uuid, token |-> token, config |-> config,
          installed |-> installed]

State == [uuid |-> uuid, token |-> token, config |-> config,
          installed |-> installed, log |-> <<>>]

\* the inputs a handler does not use
NoEnv == [pin |-> None, hint |-> <<>>, tok |-> RemoteFail, conf |-> RemoteFail,
          wg |-> "found", rm |-> "ok", inst |-> "ok", lag |-> 0,
          settle |-> ScRunning, confirm |-> FALSE, locked |-> {},
          retries |-> DefaultRetries, delay |-> DefaultDelay]

\* wireguard.exe as one handler run meets it: not on the PATH, or found and
\* then each command succeeds or fails
WgEnvs ==
  {[NoEnv EXCEPT !.wg = "missing"]}
  \cup {[NoEnv EXCEPT !.rm = r, !.inst = i] :
          r \in {"ok", "failed"}, i \in {"ok", "failed"}}

\* the part of a first-time Connect that follows the PIN dialog: nothing
\* when no PIN was entered, the token exchange, then the config exchange
\* when a token was issued, then wireguard.exe when a config was issued
PinEnvs ==
  {[NoEnv EXCEPT !.pin = p] : p \in {q \in Pins : ~Truthy(q)}}
  \cup {[NoEnv EXCEPT !.pin = p, !.hint = h] :
          p \in {q \in Pins : Truthy(q)}, h \in ClientHints}
  \cup {[NoEnv EXCEPT !.pin = p, !.hint = h, !.tok = t] :
          p \in {q \in Pins : Truthy(q)}, h \in ClientHints, t \in Tokens}
  \cup {[e EXCEPT !.pin = p, !.hint = h, !.tok = t, !.conf = c] :
          e \in WgEnvs, p \in {q \in Pins : Truthy(q)}, h \in ClientHints,
          t \in Tokens, c \in Configs}

\* a refresh: the config exchange, then wireguard.exe when a config was issued
RefreshEnvs ==
  {NoEnv} \cup {[e EXCEPT !.conf = c] : e \in WgEnvs, c \in Configs}

ConnectEnvs(tokenAbsent) == IF tokenAbsent THEN PinEnvs ELSE RefreshEnvs

\* after an acknowledged removal the status polls report the service
\* running for a while (lag polls), then gone, or from then on fail to run
PollEnvs(lags) ==
  {[NoEnv EXCEPT !.lag = l, !.settle = q] :
     l \in lags, q \in ScGone \cup ScRaised}

DeactivateEnvs(lags) ==
  {[NoEnv EXCEPT !.wg = "missing"], [NoEnv EXCEPT !.rm = "failed"]}
  \cup PollEnvs(lags)

\* the lags the intents are explored with: none, one poll, beyond the budget
IntentLags == {0, 1, MaxLag}

ResetEnvs ==
  {[NoEnv EXCEPT !.confirm = FALSE]}
  \cup {[e EXCEPT !.confirm = TRUE, !.locked = k] :
          e \in DeactivateEnvs(IntentLags), k \in {{}} \cup {{x} : x \in Slots}}

\* the status query of the control window: an installed service is reported
\* running, a removed one is not; either query can fail to run
WindowEnvs(inst) ==
  {[NoEnv EXCEPT !.settle = q] : q \in ScRaised}
  \cup (IF inst THEN {[NoEnv EXCEPT !.lag = 1]}
        ELSE {[NoEnv EXCEPT !.settle = q] : q \in ScGone})

\* a status query called on its own
StatusEnvs ==
  {[e EXCEPT !.retries = n, !.delay = d] :
     e \in {[NoEnv EXCEPT !.lag = 1]}
           \cup {[NoEnv EXCEPT !.settle = q] : q \in ScResponses},
     n \in 0..MaxRetries, d \in {DefaultDelay, RefreshDelay}}

\* generate_config called on its own
GenerateEnvs ==
  {[NoEnv EXCEPT !.pin = p, !.hint = h, !.tok = t, !.conf = c] :
     p \in Pins, h \in ClientHints,
     t \in Tokens \cup {RemoteFail}, c \in Configs \cup {RemoteFail}}

Bool(b) == [kind |-> "return", ok |-> b, msg |-> "bool"]

Done(name, r, env) ==
  /\ uuid' = r.st.uuid
  /\ token' = r.st.token
  /\ config' = r.st.config
  /\ installed' = r.st.installed
  /\ log' = r.st.log
  /\ result' = r.ret
  /\ op' = name
  /\ before' = Files
  /\ inp' = env

Init ==
  /\ uuid = None
  /\ token = None
  /\ config = None
  /\ installed = FALSE
  /\ op = "start"
  /\ log = <<>>
  /\ result = ReturnNone
  /\ before = [uuid |-> None, token |-> None, config |-> None,
               installed |-> FALSE]
  /\ inp = NoEnv

(***************************************************************************)
(* The intents of the tray menu and the status query of the window.        *)
(***************************************************************************)
Connect ==
  \E env \in ConnectEnvs(token = None) :
     Done("on_connect", on_connect(State, env), NoEnv)

Disconnect ==
  \E env \in DeactivateEnvs(IntentLags) :
     Done("on_disconnect", on_disconnect(State, env), NoEnv)

Reset ==
  \E env \in ResetEnvs :
     Done("on_delete_config", on_delete_config(State, env), NoEnv)

RefreshButtons ==
  \E env \in WindowEnvs(installed) :
     LET q == refresh_buttons(State, env)
     IN  Done("refresh_buttons", [st |-> q.st, ret |-> Bool(q.ret)], NoEnv)

Next == Connect \/ Disconnect \/ Reset \/ RefreshButtons

Spec == Init /\ [][Next]_vars

(***************************************************************************)
(* The functions called one at a time, with the inputs of each call kept.  *)
(***************************************************************************)
CallGenerate ==
  \E env \in GenerateEnvs :
     Done("generate_config", generate_config(State, env.pin, env), env)

CallActivate ==
  \E env \in WgEnvs : Done("activate_tunnel", activate_tunnel(State, env), env)

CallDeactivate ==
  \E env \in DeactivateEnvs(0..MaxLag) :
     Done("deactivate_tunnel", deactivate_tunnel(State, env), env)

CallStatus ==
  \E env \in StatusEnvs :
     LET q == is_tunnel_active(State, env.retries, env.delay, env)
     IN  Done("is_tunnel_active", [st |-> q.st, ret |-> Bool(q.ret)], env)

NextCalls == CallGenerate \/ CallActivate \/ CallDeactivate \/ CallStatus

SpecCalls == Init /\ [][NextCalls]_vars

(***************************************************************************)
(* Properties                                                              *)
(***************************************************************************)
Has(name, arg) == \E i \in 1..Len(log) : log[i] = <<name, arg>>

Did(name) == \E i \in 1..Len(log) : log[i][1] = name

\* the position of the first effect called name, 0 when there is none
First(name) ==
  IF Did(name) THEN CHOOSE i \in 1..Len(log) :
                       /\ log[i][1] = name
                       /\ \A j \in 1..(i - 1) : log[j][1] # name
  ELSE 0

ResetConfirmed == op = "on_delete_config" /\ Has("askyesno", <<"yes">>)

AllAbsent == uuid = None /\ token = None /\ config = None

\* C1: a confirmed Reset in which no deletion raised ends with the identity,
\* token and config slots all absent, whatever the slots held before and
\* whatever the service manager did during the deactivation.
C1_ResetLeavesAllSlotsAbsent ==
  (ResetConfirmed /\ ~Did("OSError")) => AllAbsent

\* C2: when the deletion of one slot fails during a confirmed Reset, the
\* other two slots that were present are absent when Reset returns.
C2_DeletionFailureDoesNotBlockOthers ==
  \A x \in Slots :
    (ResetConfirmed /\ Has("OSError", <<x>>)) =>
       \A y \in Slots \ {x} : before[y] # None => Files[y] = None

\* C3: in every reachable state an installed tunnel service implies a present
\* config slot, and activate_tunnel without a config fails without issuing a
\* service-manager command.
C3_InstalledImpliesConfig ==
  /\ installed => config # None
  /\ \A env \in WgEnvs :
        LET r == activate_tunnel([State EXCEPT !.config = None], env)
        IN  /\ r.ret = Return(FALSE, "No config found. Generate one first.")
            /\ r.st.log = <<>>

WorkingActivation(e) == e.wg = "found" /\ e.inst = "ok"

\* C4 as stated: with a service manager whose install succeeds on a clean
\* name, a second activate_tunnel right after a successful one succeeds and
\* leaves the installed state of the first.
C4_SecondActivationNeverFails ==
  [][(/\ op = "activate_tunnel" /\ result.ok
      /\ op' = "activate_tunnel" /\ WorkingActivation(inp'))
     => (result'.ok /\ installed' = installed)]_vars

\* C4 amended: with a service manager whose remove-service removes an
\* installed service and whose install succeeds on a clean name, a second
\* activate_tunnel right after a successful one issues remove-service, then
\* install-service, succeeds, and leaves the installed state and the slots
\* of the first.
C4_SecondActivationWithWorkingRemoval ==
  [][(/\ op = "activate_tunnel" /\ result.ok
      /\ op' = "activate_tunnel" /\ WorkingActivation(inp') /\ inp'.rm = "ok")
     => /\ result' = Return(TRUE, "Tunnel activated!")
        /\ installed' = installed
        /\ <<uuid', token', config'>> = <<uuid, token, config>>
        /\ log' = << <<"wg_uninstall", <<"ok">>>>, <<"wg_install", <<"ok">>>> >>]_vars

\* a second activation in a row, on an installed service, has succeeded
C4_Witness ==
  /\ op = "activate_tunnel" /\ result.ok /\ before.installed
  /\ inp.rm = "ok" /\ inp.inst = "ok"

\* C5: deactivate_tunnel on a service that is not installed (the removal
\* command reports it was not found) returns 'Tunnel not active.', issues no
\* status query, sleeps for no poll and leaves every slot as it was.
C5_NotInstalledIsNotActive ==
  (/\ op = "deactivate_tunnel" /\ ~before.installed
   /\ inp.wg = "found" /\ inp.rm = "ok")
  => /\ result = Return(FALSE, "Tunnel not active.")
     /\ result.msg # "Deactivation failed: "
     /\ log = << <<"wg_uninstall", <<"not found">>>> >>
     /\ Files = before

C5_Witness ==
  /\ op = "deactivate_tunnel" /\ ~before.installed /\ before.config # None
  /\ inp.wg = "found" /\ inp.rm = "ok" /\ result.msg = "Tunnel not active."

\* C6: after an acknowledged removal deactivate_tunnel performs at most 10
\* status polls and returns success, with the 'requested' qualifier when
\* every poll reported the service running.
C6_AtMostTenPolls ==
  (op = "deactivate_tunnel" /\ Has("wg_uninstall", <<"ok">>))
  => /\ Count(log, "sc_query") <= 10
     /\ result.kind = "return" /\ result.ok
     /\ (\A i \in 1..Len(log) : log[i][1] = "sc_query" => log[i][2] = <<"RUNNING">>)
        => result.msg = "Tunnel deactivation requested (status may take a moment to update)"

\* C7: is_tunnel_active(retries = N, delay = d) returns a result after at
\* most N status queries and at most N - 1 sleeps, whatever the responses.
C7_StatusQueryBounded ==
  op = "is_tunnel_active"
  => /\ result.kind = "return"
     /\ Count(log, "sc_query") <= inp.retries
     /\ Count(log, "sleep") <= (IF inp.retries >= 1 THEN inp.retries - 1 ELSE 0)
     /\ \A i \in 1..Len(log) : log[i][1] = "sleep" => log[i][2] = inp.delay

\* several attempts were allowed and the first query could not be run
C7_Witness ==
  /\ op = "is_tunnel_active" /\ inp.retries >= 2
  /\ Has("sc_query", <<"TimeoutExpired">>) /\ result.kind = "return"

\* the runtime state the specification's table assigns to a response
TableState(r) ==
  IF r.exc # "none" THEN "Unknown"
  ELSE IF r.returncode = 0 /\ r.state = "RUNNING" THEN "Active"
  ELSE "Inactive"

\* the runtime state a caller can read off is_tunnel_active's result
ReportedState(b) == IF b THEN "Active" ELSE "Inactive"

\* C8: the status query classifies every response as the table does; a
\* query that could not be run gives Unknown, distinct from Inactive.
C8_ClassifiesAsTable ==
  (op = "is_tunnel_active" /\ inp.retries >= 1)
  => /\ result.kind = "return"
     /\ ReportedState(result.ok) = TableState(ScQuery(inp, 1))

\* C9: the token the no-PIN path of generate_config reads back and hands to
\* connect_device is the token the PIN path obtained and persisted in the
\* call before.
C9_TokenRoundTrip ==
  [][(/\ op = "generate_config" /\ Truthy(inp.pin) /\ inp.tok # RemoteFail
      /\ op' = "generate_config" /\ ~Truthy(inp'.pin))
     => /\ \E i \in 1..Len(log') : log'[i][1] = "connect_device"
        /\ \A i \in 1..Len(log') :
              log'[i][1] = "connect_device" => log'[i][2] = inp.tok]_vars

FirstConnectSucceeded ==
  op = "on_connect" /\ before.token = None /\ Has("wg_install", <<"ok">>)

ScAnswered(l) ==
  \A i \in 1..Len(l) :
     l[i][1] = "sc_query" =>
        l[i][2][1] \notin {"TimeoutExpired", "FileNotFoundError", "OSError"}

\* C10: a first-time Connect (no token persisted) whose PIN, token exchange,
\* config exchange and install all succeed ends with identity, token and
\* config present and the service installed; the identity was persisted
\* before the token, the token before the config, the config before the
\* install; a status query that follows and is answered returns Active.
C10_FirstConnect ==
  [][FirstConnectSucceeded
     => /\ uuid # None /\ token # None /\ config # None /\ installed
        /\ before.uuid = None => First("write_uuid") > 0
        /\ First("write_uuid") < First("write_token")
        /\ First("write_token") < First("write_config")
        /\ First("write_config") < First("wg_install")
        /\ (op' = "refresh_buttons" /\ ScAnswered(log')) => result'.ok]_vars

C10_Witness ==
  /\ FirstConnectSucceeded /\ before.uuid = None /\ installed
  /\ Has("askstring", <<"a">>)

\* the same questions about any log
DidIn(l, name) == \E i \in 1..Len(l) : l[i][1] = name

HasIn(l, name, arg) == \E i \in 1..Len(l) : l[i] = <<name, arg>>

RefreshConnect == op = "on_connect" /\ before.token # None

\* C11: Connect with a token persisted never prompts for a PIN and never
\* calls the remote credential exchange; it reads the stored token, asks the
\* remote for a config and, when one is issued, overwrites the config slot
\* with it; remove-service is issued before install-service; the token and
\* identity slots are left as they were.
C11_ConnectWithTokenIsRefresh ==
  RefreshConnect
  => /\ ~Did("askstring") /\ ~Did("get_device_token")
     /\ ~Did("write_token") /\ ~Did("write_uuid")
     /\ token = before.token /\ uuid = before.uuid
     /\ log[1] = <<"read_token", before.token>>
     /\ log[2][1] = "connect_device"
     /\ \A i \in 1..Len(log) : log[i][1] = "write_config" => config = log[i][2]
     /\ Did("wg_install") =>
           /\ Did("write_config")
           /\ First("write_config") < First("wg_uninstall")
           /\ First("wg_uninstall") < First("wg_install")

\* a refresh replaced the service that was installed
C11_Witness ==
  /\ RefreshConnect /\ before.installed /\ installed
  /\ Has("wg_uninstall", <<"ok">>) /\ Has("wg_install", <<"ok">>)

\* C12: Disconnect queries the tunnel status first and then issues the
\* remove-service command, in every state.
C12_DisconnectQueriesThenRemoves ==
  op = "on_disconnect"
  => /\ log[1][1] = "sc_query"
     /\ Did("wg_uninstall")

\* C13: Connect returns a success outcome only if the service install of
\* this run succeeded (and with it the token and config exchanges before
\* it); after a failed token exchange, config exchange or install the
\* outcome it returns is a failure.
C13_ConnectOutcomeTellsFailure ==
  (op = "on_connect" /\ (Did("get_device_token") \/ Did("connect_device")))
  => (result.kind = "return" => (result.ok <=> Has("wg_install", <<"ok">>)))

\* C14: activate_tunnel and deactivate_tunnel return a (success, message)
\* outcome on every path, whatever the service manager does, a missing
\* manager binary included; they never raise.
C14_TunnelCommandsNeverRaise ==
  op \in {"activate_tunnel", "deactivate_tunnel"} => result.kind = "return"

\* C15: once the identity slot is present, no intent other than Reset
\* changes its value or makes it absent.
C15_IdentityStableBetweenResets ==
  [][(uuid # None /\ op' # "on_delete_config") => uuid' = uuid]_vars

\* a PIN was exchanged with the identity of an earlier Connect
C15_Witness ==
  /\ op = "on_connect" /\ before.uuid # None /\ Did("get_device_token")
  /\ Has("read_uuid", before.uuid) /\ uuid = before.uuid

\* C16: in every state the intents reach, a present token slot implies a
\* present identity slot.
C16_TokenImpliesIdentity ==
  token # None => uuid # None

\* a Reset that failed part-way left a token behind
C16_Witness ==
  ResetConfirmed /\ Did("OSError") /\ token # None /\ uuid # None

\* C17: after an acknowledged removal deactivate_tunnel returns the
\* unqualified 'Tunnel deactivated!' only when a status poll was answered
\* and reported the service gone (stopped, nonexistent, or any other answer
\* than running); when no poll confirmed this, polls that timed out or could
\* not be run included, it returns the qualified 'deactivation requested'
\* outcome.
C17_DeactivatedOnlyWhenConfirmed ==
  (op = "deactivate_tunnel" /\ Has("wg_uninstall", <<"ok">>))
  => /\ result.kind = "return" /\ result.ok
     /\ result.msg = "Tunnel deactivated!"
        <=> \E r \in ScGone : Has("sc_query", <<r.state>>)
     /\ result.msg # "Tunnel deactivated!"
        => result.msg = "Tunnel deactivation requested (status may take a moment to update)"

CredentialedNotConfigured == token # None /\ config = None

\* C18: the state with a token and no config is entered only by a first-time
\* Connect that persisted a new token and whose config exchange then failed;
\* it is never the state after a Connect whose install succeeded; from it
\* the next Connect takes the refresh path and shows no PIN prompt.
C18_CredentialedNotConfigured ==
  [][/\ (~CredentialedNotConfigured /\ CredentialedNotConfigured')
        => /\ op' = "on_connect" /\ token = None
           /\ HasIn(log', "write_token", token')
           /\ DidIn(log', "connect_device")
           /\ ~DidIn(log', "write_config") /\ ~DidIn(log', "wg_install")
     /\ (op' = "on_connect" /\ HasIn(log', "wg_install", <<"ok">>))
        => ~CredentialedNotConfigured'
     /\ (CredentialedNotConfigured /\ op' = "on_connect")
        => /\ ~DidIn(log', "askstring") /\ ~DidIn(log', "get_device_token")
           /\ log'[1] = <<"read_token", token>>]_vars

\* a Connect that started with a token and no config and refreshed it
C18_Witness ==
  /\ op = "on_connect" /\ before.token # None /\ before.config = None
  /\ Did("read_token") /\ config # None

TokenExchangeFailed ==
  op = "generate_config" /\ Truthy(inp.pin) /\ inp.tok = RemoteFail

\* C20: when generate_config is called with a PIN and the token exchange
\* fails, the token and config slots hold what they held before, no
\* service-manager command is issued and the service is as it was; the
\* identity slot is as before or went from absent to present.
C20_FailedExchangeLeavesCredentials ==
  TokenExchangeFailed
  => /\ token = before.token /\ config = before.config
     /\ installed = before.installed
     /\ ~Did("wg_uninstall") /\ ~Did("wg_install") /\ ~Did("sc_query")
     /\ ~Did("connect_device")
     /\ uuid = before.uuid \/ (before.uuid = None /\ uuid = inp.hint)
     /\ result = Return(FALSE, "get_device_token failed")

\* the exchange failed while a token and a config were stored
C20_Witness ==
  /\ TokenExchangeFailed /\ before.token # None /\ before.config # None
  /\ token = before.token

====
